---- MODULE Spec2Model ----
(***************************************************************************)
(* Model of solarshed/controllers/renogy_rover.py: the RenogyRover driver  *)
(* (a minimalmodbus.Instrument subclass), its lookup tables and the        *)
(* LoadMode enumeration.                                                   *)
(*                                                                         *)
(* Four specifications share the module:                                   *)
(*   SpecCodec      the single-register decoders applied to every 16-bit   *)
(*                  register word;                                         *)
(*   SpecVersion    version() applied to four register words;              *)
(*   Spec           one caller invoking the accessors and mutators against *)
(*                  a transport that answers or fails;                     *)
(*   SpecConcurrent several threads invoking them on one instance.         *)
(***************************************************************************)
EXTENDS Integers, Sequences, FiniteSets, TLC

VARIABLES
    raw,          \* codec: the register words handed to a decoder
    decoded,      \* codec: the decoder applied and what it returned
    loadModeReg,  \* device: holding register 0xE01D
    relayReg,     \* device: load relay register 0x010A
    last,         \* facade: the last finished invocation
    pc,           \* threads: where each thread is in its invocation
    bus           \* threads: request/response frames on the serial line

vars == <<raw, decoded, loadModeReg, relayReg, last, pc, bus>>

-----------------------------------------------------------------------------
(* Bounds *)

\* index of the last sampled register word a read may answer with
MaxSample == 2
\* index of the last sampled byte of the version registers
MaxByteIdx == 1
\* frames on the serial line before the threads stop calling
MaxFrames == 4
\* threads sharing one RenogyRover instance, beyond the first
ExtraThreads == 1

-----------------------------------------------------------------------------
(* Python values *)

PyNone == [type |-> "NoneType"]
PyInt(n) == [type |-> "int", int |-> n]
PyStr(s) == [type |-> "str", str |-> s]
PyText(cs) == [type |-> "str", chars |-> cs]
PyFloat(n, d) == [type |-> "float", num |-> n, den |-> d]
PyTuple(items) == [type |-> "tuple", items |-> items]
PyEnum(name) == [type |-> "LoadMode", name |-> name]
PyObject(v) == [type |-> "object", value |-> v]
PyRaise(exc) == [type |-> "raise", exc |-> exc]

\* a register is an unsigned 16-bit word
Word == 0 .. (2^16 - 1)

RECURSIVE BitAnd(_, _)
\* a & b on non-negative integers
BitAnd(a, b) ==
    IF a = 0 \/ b = 0 THEN 0
    ELSE (a % 2) * (b % 2) + 2 * BitAnd(a \div 2, b \div 2)

\* a >> n on non-negative integers
ShiftRight(a, n) == a \div (2^n)

Digit == <<"0", "1", "2", "3", "4", "5", "6", "7", "8", "9">>

RECURSIVE Str(_)
\* '{}'.format(n) for a non-negative integer: its decimal digits
Str(n) == IF n < 10 THEN <<Digit[n + 1]>> ELSE Str(n \div 10) \o <<Digit[(n % 10) + 1]>>

-----------------------------------------------------------------------------
(* Lookup tables *)

BATTERY_TYPE ==
    (1 :> "open") @@ (2 :> "sealed") @@ (3 :> "gel") @@ (4 :> "lithium")
    @@ (5 :> "self-customized")

CHARGING_STATE ==
    (0 :> "deactivated") @@ (1 :> "activated") @@ (2 :> "mppt")
    @@ (3 :> "equalizing") @@ (4 :> "boost") @@ (5 :> "floating")
    @@ (6 :> "current limiting")

\* dict.get(key): the value, or None when the key is absent
DictGet(table, key) ==
    IF key \in DOMAIN table THEN PyStr(table[key]) ELSE PyNone

LoadMode ==
    [ SOLE_LIGHT_CONTROL |-> 0, MANUAL |-> 15,
      DELAY_1_HR |-> 1, DELAY_2_HR |-> 2, DELAY_3_HR |-> 3, DELAY_4_HR |-> 4,
      DELAY_5_HR |-> 5, DELAY_6_HR |-> 6, DELAY_7_HR |-> 7, DELAY_8_HR |-> 8,
      DELAY_9_HR |-> 9, DELAY_10_HR |-> 10, DELAY_11_HR |-> 11,
      DELAY_12_HR |-> 12, DELAY_13_HR |-> 13, DELAY_14_HR |-> 14,
      DEBUG |-> 16, ALWAYS_ON |-> 17 ]

LoadModeNames == DOMAIN LoadMode

\* LoadMode(register) with the membership test dropped: any word becomes a mode
LoadModeLookupCoerce(register) ==
    IF \E m \in LoadModeNames : LoadMode[m] = register
    THEN PyEnum(CHOOSE m \in LoadModeNames : LoadMode[m] = register)
    ELSE PyEnum("MANUAL")

\* LoadMode(register): the member whose value is register, else ValueError
LoadModeLookup(register) ==
    IF \E m \in LoadModeNames : LoadMode[m] = register
    THEN PyEnum(CHOOSE m \in LoadModeNames : LoadMode[m] = register)
    ELSE PyRaise("ValueError")

-----------------------------------------------------------------------------
(* The accessors' decoding of the words read *)

system_voltage_current_of(register) ==
    LET amps == BitAnd(register, 255)
        voltage == ShiftRight(register, 8)
    IN  PyTuple(<<voltage, amps>>)

FormatVersion(major, minor, patch) ==
    PyText(<<"V">> \o Str(major) \o <<".">> \o Str(minor) \o <<".">> \o Str(patch))

\* version() with the major numbers taken from the high bytes
version_of_high_major(registers) ==
    PyTuple(<<FormatVersion(ShiftRight(registers[1], 8), ShiftRight(registers[2], 8),
                            BitAnd(registers[2], 255)),
              FormatVersion(ShiftRight(registers[3], 8), ShiftRight(registers[4], 8),
                            BitAnd(registers[4], 255))>>)

version_of(registers) ==
    LET soft_major == BitAnd(registers[1], 255)
        soft_minor == ShiftRight(registers[2], 8)
        soft_patch == BitAnd(registers[2], 255)
        hard_major == BitAnd(registers[3], 255)
        hard_minor == ShiftRight(registers[4], 8)
        hard_patch == BitAnd(registers[4], 255)
    IN  PyTuple(<<FormatVersion(soft_major, soft_minor, soft_patch),
                  FormatVersion(hard_major, hard_minor, hard_patch)>>)

serial_number_of(registers) == PyText(Str(registers[1]) \o Str(registers[2]))

\* battery_temperature() with temp_value masked to the low seven bits
battery_temperature_of_mask7(register) ==
    LET battery_temp_bits == BitAnd(register, 255)
        temp_value == BitAnd(battery_temp_bits, 127)
        sign == ShiftRight(battery_temp_bits, 7)
    IN  PyInt(IF sign = 1 THEN -(temp_value - 128) ELSE temp_value)

battery_temperature_of(register) ==
    LET battery_temp_bits == BitAnd(register, 255)
        temp_value == BitAnd(battery_temp_bits, 255)
        sign == ShiftRight(battery_temp_bits, 7)
        battery_temp == IF sign = 1 THEN -(temp_value - 128) ELSE temp_value
    IN  PyInt(battery_temp)

\* controller_temperature() with the sign flag taken from bit 8, never set
controller_temperature_of_unsigned(register) ==
    LET controller_temp_bits == ShiftRight(register, 8)
        temp_value == BitAnd(controller_temp_bits, 255)
        sign == ShiftRight(controller_temp_bits, 8)
    IN  PyInt(IF sign = 1 THEN -(temp_value - 128) ELSE temp_value)

controller_temperature_of(register) ==
    LET controller_temp_bits == ShiftRight(register, 8)
        temp_value == BitAnd(controller_temp_bits, 255)
        sign == ShiftRight(controller_temp_bits, 7)
        controller_temp == IF sign = 1 THEN -(temp_value - 128) ELSE temp_value
    IN  PyInt(controller_temp)

charging_status_of(register) == BitAnd(register, 255)

charging_status_label_of(register) ==
    DictGet(CHARGING_STATE, charging_status_of(register))

voltage_setting_of(register) ==
    LET setting == ShiftRight(register, 8)
        recognized_voltage == BitAnd(register, 255)
    IN  PyTuple(<<setting, recognized_voltage>>)

battery_type_of(register) == DictGet(BATTERY_TYPE, register)

load_mode_of(register) == LoadModeLookup(register)

\* obj.value: Enum members and any object carrying the attribute have one
HasValueAttr(obj) == obj.type \in {"LoadMode", "object"}

ValueAttr(obj) == IF obj.type = "LoadMode" THEN LoadMode[obj.name] ELSE obj.value

-----------------------------------------------------------------------------
(* SpecCodec: each single-register decoder on every register word *)

NoDecode == [fn |-> "none"]

FacadeIdle ==
    /\ loadModeReg = 0
    /\ relayReg = 0
    /\ last = [op |-> "none"]

ThreadsIdle ==
    /\ pc = <<>>
    /\ bus = <<>>

InitCodec ==
    /\ raw \in {<<w>> : w \in Word}
    /\ decoded = NoDecode
    /\ FacadeIdle
    /\ ThreadsIdle

\* the decoder fn has returned out
Apply(fn, out) == decoded' = [fn |-> fn, out |-> out]

CodecUnchanged == UNCHANGED <<raw, loadModeReg, relayReg, last, pc, bus>>

DecodeBatteryTemperature ==
    /\ Apply("battery_temperature", battery_temperature_of(raw[1]))
    /\ CodecUnchanged

DecodeControllerTemperature ==
    /\ Apply("controller_temperature", controller_temperature_of(raw[1]))
    /\ CodecUnchanged

DecodeChargingStatusLabel ==
    /\ Apply("charging_status_label", charging_status_label_of(raw[1]))
    /\ CodecUnchanged

DecodeBatteryType ==
    /\ Apply("battery_type", battery_type_of(raw[1]))
    /\ CodecUnchanged

DecodeLoadMode ==
    /\ Apply("load_mode", load_mode_of(raw[1]))
    /\ CodecUnchanged

NextCodec ==
    \/ DecodeBatteryTemperature
    \/ DecodeControllerTemperature
    \/ DecodeChargingStatusLabel
    \/ DecodeBatteryType
    \/ DecodeLoadMode

SpecCodec == InitCodec /\ [][NextCodec]_vars

\* the byte a temperature accessor decodes: low byte for the battery, high
\* byte for the controller
TempByte == IF decoded.fn = "battery_temperature" THEN raw[1] % 256 ELSE raw[1] \div 256

IsTemp == decoded.fn \in {"battery_temperature", "controller_temperature"}

\* C1 as stated: with sign bit s and magnitude m = low seven bits of the byte,
\* the decoded temperature is m when s = 0 and -(m - 128) when s = 1.
C1_AsStated ==
    IsTemp =>
        LET s == TempByte \div 128
            m == TempByte % 128
        IN  decoded.out = PyInt(IF s = 0 THEN m ELSE -(m - 128))

\* C1 amended: the decoded temperature is m when s = 0 and -m when s = 1,
\* because 128 is subtracted from the whole byte (128 + m), not from m.
C1_TempSignMagnitude ==
    IsTemp =>
        LET s == TempByte \div 128
            m == TempByte % 128
        IN  decoded.out = PyInt(IF s = 0 THEN m ELSE -m)

\* byte 0x9E (sign set, magnitude 30) has been decoded by battery_temperature
C1_Witness ==
    /\ decoded.fn = "battery_temperature"
    /\ raw[1] % 256 = 158
    /\ decoded.out = PyInt(-30)

\* C10: for every register word both temperatures are integers in -127..127;
\* with bit 7 of the byte clear the result is the byte, with bit 7 set it is
\* -(byte - 128), which is never positive.
C10_TempRange ==
    IsTemp =>
        /\ decoded.out.type = "int"
        /\ decoded.out.int \in -127 .. 127
        /\ TempByte < 128 => decoded.out.int = TempByte
        /\ TempByte >= 128 =>
              /\ decoded.out.int = -(TempByte - 128)
              /\ decoded.out.int <= 0

\* the controller field 0xFF (sign set, magnitude 127) has been decoded
C10_Witness ==
    /\ decoded.fn = "controller_temperature"
    /\ raw[1] \div 256 = 255
    /\ decoded.out = PyInt(-127)

\* C2: a battery-type word outside the table, and a charging status code
\* outside the table, decode to the label "unknown".
C2_UnknownLabel ==
    /\ (decoded.fn = "battery_type" /\ raw[1] \notin DOMAIN BATTERY_TYPE)
          => decoded.out = PyStr("unknown")
    /\ (decoded.fn = "charging_status_label" /\ (raw[1] % 256) \notin DOMAIN CHARGING_STATE)
          => decoded.out = PyStr("unknown")

\* C3: a word v in 0x00..0x11 decodes to the member whose wire value is v,
\* and decoding that member's wire value gives the member back; any other
\* word raises ValueError.
C3_LoadModeRoundTrip ==
    decoded.fn = "load_mode" =>
        IF raw[1] \in 0 .. 17
        THEN /\ decoded.out.type = "LoadMode"
             /\ ValueAttr(decoded.out) = raw[1]
             /\ load_mode_of(ValueAttr(decoded.out)) = decoded.out
             /\ ValueAttr(load_mode_of(ValueAttr(decoded.out))) = raw[1]
        ELSE decoded.out = PyRaise("ValueError")

\* word 0x12 has been refused and word 0x0F has been decoded to MANUAL
C3_WitnessInvalid == decoded.fn = "load_mode" /\ raw[1] = 18 /\ decoded.out.type = "raise"

C3_Witness == decoded.fn = "load_mode" /\ raw[1] = 15 /\ decoded.out = PyEnum("MANUAL")

-----------------------------------------------------------------------------
(* SpecVersion: version() on four register words *)

ByteSamples == {(k * k * 7) % 256 : k \in 0 .. MaxByteIdx} \cup {255}

VersionWords == {hi * 256 + lo : hi \in ByteSamples, lo \in ByteSamples}

InitVersion ==
    /\ raw \in [1 .. 4 -> VersionWords]
    /\ decoded = NoDecode
    /\ FacadeIdle
    /\ ThreadsIdle

DecodeVersion ==
    /\ Apply("version", version_of(raw))
    /\ CodecUnchanged

NextVersion == DecodeVersion

SpecVersion == InitVersion /\ [][NextVersion]_vars

DigitValue(c) == CHOOSE d \in 0 .. 9 : Digit[d + 1] = c

RECURSIVE Number(_)
\* the number a sequence of decimal digits denotes
Number(cs) ==
    IF cs = <<>> THEN 0
    ELSE 10 * Number(SubSeq(cs, 1, Len(cs) - 1)) + DigitValue(cs[Len(cs)])

\* a canonical decimal numeral: digits only, no sign, no leading zero
IsNumeral(cs) ==
    /\ Len(cs) >= 1
    /\ \A i \in 1 .. Len(cs) : \E d \in 1 .. 10 : Digit[d] = cs[i]
    /\ Len(cs) > 1 => cs[1] # "0"

\* text is "V<a>.<b>.<c>" with a, b, c the numerals of major, minor, patch
IsVersionText(text, major, minor, patch) ==
    LET cs == text.chars
        dots == {i \in 1 .. Len(cs) : cs[i] = "."}
    IN  /\ text.type = "str"
        /\ cs[1] = "V"
        /\ Cardinality(dots) = 2
        /\ LET d1 == CHOOSE i \in dots : \A j \in dots : i <= j
               d2 == CHOOSE i \in dots : \A j \in dots : i >= j
               a == SubSeq(cs, 2, d1 - 1)
               b == SubSeq(cs, d1 + 1, d2 - 1)
               c == SubSeq(cs, d2 + 1, Len(cs))
           IN  /\ IsNumeral(a) /\ Number(a) = major /\ major \in 0 .. 255
               /\ IsNumeral(b) /\ Number(b) = minor /\ minor \in 0 .. 255
               /\ IsNumeral(c) /\ Number(c) = patch /\ patch \in 0 .. 255

\* C9: version returns (software, hardware) with software
\* "V{w0 & 0xFF}.{w1 >> 8}.{w1 & 0xFF}" and hardware
\* "V{w2 & 0xFF}.{w3 >> 8}.{w3 & 0xFF}", every field a decimal integer in
\* 0..255, and the result is the same whatever the high bytes of w0 and w2.
C9_VersionFormat ==
    decoded.fn = "version" =>
        /\ decoded.out.type = "tuple"
        /\ Len(decoded.out.items) = 2
        /\ IsVersionText(decoded.out.items[1],
                         raw[1] % 256, raw[2] \div 256, raw[2] % 256)
        /\ IsVersionText(decoded.out.items[2],
                         raw[3] % 256, raw[4] \div 256, raw[4] % 256)
        /\ \A h0, h2 \in ByteSamples :
              version_of([raw EXCEPT ![1] = h0 * 256 + (raw[1] % 256),
                                     ![3] = h2 * 256 + (raw[3] % 256)]) = decoded.out

\* words [0xFF07, 0x07FF, 0xFF00, 0x0007] have been decoded to
\* ("V7.7.255", "V0.0.7"): the high bytes 0xFF of w0 and w2 are dropped
C9_Witness ==
    /\ decoded.fn = "version"
    /\ raw = <<65287, 2047, 65280, 7>>
    /\ decoded.out = PyTuple(<<PyText(<<"V", "7", ".", "7", ".", "2", "5", "5">>),
                               PyText(<<"V", "0", ".", "0", ".", "7">>)>>)

-----------------------------------------------------------------------------
(* Spec: one caller, the transport and the device *)

ReadCall(fn, address, count) ==
    [fn |-> fn, registeraddress |-> address, numberOfRegisters |-> count]

WriteCall(address, value) ==
    [fn |-> "write_register", registeraddress |-> address, value |-> value,
     functioncode |-> 6]

SampleWords == {(k * 40478) % (2^16) : k \in 0 .. MaxSample}

\* what the device may answer to a read of count registers from address
Answers(address, count) ==
    IF address = 57373 THEN {<<loadModeReg>>}
    ELSE {[i \in 1 .. count |-> (w + (i - 1) * 257) % (2^16)] : w \in SampleWords}

\* one read through the inherited Instrument: the words, or an exception
Read(fn, address, count) ==
    {[calls |-> <<ReadCall(fn, address, count)>>, ok |-> TRUE, words |-> ws] :
        ws \in Answers(address, count)}
    \cup {[calls |-> <<ReadCall(fn, address, count)>>, ok |-> FALSE, words |-> <<>>]}

\* an accessor that catches the transport's exception and returns None
OutcomeSwallowed(x, value) == IF x.ok THEN value ELSE PyNone

\* what the caller gets: the value, or the transport's exception unchanged
Outcome(x, value) == IF x.ok THEN value ELSE PyRaise("CommunicationError")

Finished(op, arg, x, value) ==
    last' = [op |-> op, arg |-> arg, calls |-> x.calls,
             transport |-> IF x.ok THEN "ok" ELSE "failed",
             out |-> Outcome(x, value)]

\* a read accessor changes nothing on the device
DeviceUnchanged == UNCHANGED <<raw, decoded, loadModeReg, relayReg, pc, bus>>

model_of(registers) ==
    [type |-> "str",
     codes |-> [i \in 1 .. 2 * Len(registers) |->
                  IF i % 2 = 1 THEN ShiftRight(registers[(i + 1) \div 2], 8)
                  ELSE BitAnd(registers[i \div 2], 255)]]

model ==
    \E x \in Read("read_string", 12, 8) :
        /\ Finished("model", PyNone, x, model_of(x.words))
        /\ DeviceUnchanged

system_voltage_current ==
    \E x \in Read("read_register", 10, 1) :
        /\ Finished("system_voltage_current", PyNone, x, system_voltage_current_of(x.words[1]))
        /\ DeviceUnchanged

version ==
    \E x \in Read("read_registers", 20, 4) :
        /\ Finished("version", PyNone, x, version_of(x.words))
        /\ DeviceUnchanged

serial_number ==
    \E x \in Read("read_registers", 24, 2) :
        /\ Finished("serial_number", PyNone, x, serial_number_of(x.words))
        /\ DeviceUnchanged

battery_percentage ==
    \E x \in Read("read_register", 256, 1) :
        /\ Finished("battery_percentage", PyNone, x, PyInt(BitAnd(x.words[1], 255)))
        /\ DeviceUnchanged

battery_voltage ==
    \E x \in Read("read_register", 257, 1) :
        /\ Finished("battery_voltage", PyNone, x, PyFloat(x.words[1], 10))
        /\ DeviceUnchanged

battery_temperature ==
    \E x \in Read("read_register", 259, 1) :
        /\ Finished("battery_temperature", PyNone, x, battery_temperature_of(x.words[1]))
        /\ DeviceUnchanged

\* controller_temperature() reading the register next to the packed one
controller_temperature_reads_258 ==
    \E x \in Read("read_register", 258, 1) :
        /\ Finished("controller_temperature", PyNone, x, controller_temperature_of(x.words[1]))
        /\ DeviceUnchanged

controller_temperature ==
    \E x \in Read("read_register", 259, 1) :
        /\ Finished("controller_temperature", PyNone, x, controller_temperature_of(x.words[1]))
        /\ DeviceUnchanged

load_voltage ==
    \E x \in Read("read_register", 260, 1) :
        /\ Finished("load_voltage", PyNone, x, PyFloat(x.words[1], 10))
        /\ DeviceUnchanged

load_current ==
    \E x \in Read("read_register", 261, 1) :
        /\ Finished("load_current", PyNone, x, PyFloat(x.words[1], 100))
        /\ DeviceUnchanged

load_power ==
    \E x \in Read("read_register", 262, 1) :
        /\ Finished("load_power", PyNone, x, PyInt(x.words[1]))
        /\ DeviceUnchanged

solar_voltage ==
    \E x \in Read("read_register", 263, 1) :
        /\ Finished("solar_voltage", PyNone, x, PyFloat(x.words[1], 10))
        /\ DeviceUnchanged

solar_current ==
    \E x \in Read("read_register", 264, 1) :
        /\ Finished("solar_current", PyNone, x, PyFloat(x.words[1], 100))
        /\ DeviceUnchanged

solar_power ==
    \E x \in Read("read_register", 265, 1) :
        /\ Finished("solar_power", PyNone, x, PyInt(x.words[1]))
        /\ DeviceUnchanged

charging_amp_hours_today ==
    \E x \in Read("read_register", 273, 1) :
        /\ Finished("charging_amp_hours_today", PyNone, x, PyInt(x.words[1]))
        /\ DeviceUnchanged

discharging_amp_hours_today ==
    \E x \in Read("read_register", 274, 1) :
        /\ Finished("discharging_amp_hours_today", PyNone, x, PyInt(x.words[1]))
        /\ DeviceUnchanged

power_generation_today ==
    \E x \in Read("read_register", 275, 1) :
        /\ Finished("power_generation_today", PyNone, x, PyInt(x.words[1]))
        /\ DeviceUnchanged

charging_status ==
    \E x \in Read("read_register", 288, 1) :
        /\ Finished("charging_status", PyNone, x, PyInt(charging_status_of(x.words[1])))
        /\ DeviceUnchanged

charging_status_label ==
    \E x \in Read("read_register", 288, 1) :
        /\ Finished("charging_status_label", PyNone, x, charging_status_label_of(x.words[1]))
        /\ DeviceUnchanged

battery_capacity ==
    \E x \in Read("read_register", 57346, 1) :
        /\ Finished("battery_capacity", PyNone, x, PyInt(x.words[1]))
        /\ DeviceUnchanged

voltage_setting ==
    \E x \in Read("read_register", 57347, 1) :
        /\ Finished("voltage_setting", PyNone, x, voltage_setting_of(x.words[1]))
        /\ DeviceUnchanged

battery_type ==
    \E x \in Read("read_register", 57348, 1) :
        /\ Finished("battery_type", PyNone, x, battery_type_of(x.words[1]))
        /\ DeviceUnchanged

load_mode ==
    \E x \in Read("read_register", 57373, 1) :
        /\ Finished("load_mode", PyNone, x, load_mode_of(x.words[1]))
        /\ DeviceUnchanged

\* one write through the inherited Instrument: the device applies it and
\* answers, or the exchange raises, with the request applied or lost
Write(address, value) ==
    {[calls |-> <<WriteCall(address, value)>>, ok |-> TRUE, applied |-> TRUE]}
    \cup {[calls |-> <<WriteCall(address, value)>>, ok |-> FALSE, applied |-> a] :
            a \in BOOLEAN}

\* the device after the write request x
Device(x) ==
    LET call == x.calls[1]
    IN  /\ loadModeReg' = IF x.applied /\ call.registeraddress = 57373
                          THEN call.value ELSE loadModeReg
        /\ relayReg' = IF x.applied /\ call.registeraddress = 266
                       THEN call.value ELSE relayReg

\* a mutator touches nothing but the device and returns nothing
Written(op, arg, x) == Device(x) /\ Finished(op, arg, x, PyNone)

\* what a caller may pass as load_mode: a member, a bare wire value, or an
\* object of another class that carries a value attribute
LoadModeArgs ==
    {PyEnum(m) : m \in LoadModeNames} \cup {PyInt(15), PyInt(18)} \cup {PyObject(18)}

set_load_mode ==
    \E arg \in LoadModeArgs :
        IF HasValueAttr(arg)
        THEN \E x \in Write(57373, ValueAttr(arg)) :
                 /\ Written("set_load_mode", arg, x)
                 /\ UNCHANGED <<raw, decoded, pc, bus>>
        ELSE /\ last' = [op |-> "set_load_mode", arg |-> arg, calls |-> <<>>,
                         transport |-> "none", out |-> PyRaise("AttributeError")]
             /\ DeviceUnchanged

set_load_on ==
    \E x \in Write(266, 1) :
        /\ Written("set_load_on", PyNone, x)
        /\ UNCHANGED <<raw, decoded, pc, bus>>

set_load_off ==
    \E x \in Write(266, 0) :
        /\ Written("set_load_off", PyNone, x)
        /\ UNCHANGED <<raw, decoded, pc, bus>>

Init ==
    /\ raw = <<>>
    /\ decoded = NoDecode
    /\ loadModeReg \in SampleWords
    /\ relayReg \in {0, 1}
    /\ last = [op |-> "none"]
    /\ ThreadsIdle

Next ==
    \/ model
    \/ system_voltage_current
    \/ version
    \/ serial_number
    \/ battery_percentage
    \/ battery_voltage
    \/ battery_temperature
    \/ controller_temperature
    \/ load_voltage
    \/ load_current
    \/ load_power
    \/ solar_voltage
    \/ solar_current
    \/ solar_power
    \/ charging_amp_hours_today
    \/ discharging_amp_hours_today
    \/ power_generation_today
    \/ charging_status
    \/ charging_status_label
    \/ battery_capacity
    \/ voltage_setting
    \/ battery_type
    \/ load_mode
    \/ set_load_mode
    \/ set_load_on
    \/ set_load_off

Spec == Init /\ [][Next]_vars

Invoked == last.op # "none"

\* C4: set_load_mode called with something that is not a LoadMode member
\* raises before the transport is used: no write to 0xE01D has been issued.
C4_NonMemberRejected ==
    (Invoked /\ last.op = "set_load_mode" /\ last.arg.type # "LoadMode") =>
        /\ last.out.type = "raise"
        /\ last.calls = <<>>

\* the register map of the claim: the one transport call of each operation
ExpectedCall(op, arg) ==
    CASE op = "model" -> ReadCall("read_string", 12, 8)
      [] op = "system_voltage_current" -> ReadCall("read_register", 10, 1)
      [] op = "version" -> ReadCall("read_registers", 20, 4)
      [] op = "serial_number" -> ReadCall("read_registers", 24, 2)
      [] op = "battery_percentage" -> ReadCall("read_register", 256, 1)
      [] op = "battery_voltage" -> ReadCall("read_register", 257, 1)
      [] op = "battery_temperature" -> ReadCall("read_register", 259, 1)
      [] op = "controller_temperature" -> ReadCall("read_register", 259, 1)
      [] op = "load_voltage" -> ReadCall("read_register", 260, 1)
      [] op = "load_current" -> ReadCall("read_register", 261, 1)
      [] op = "load_power" -> ReadCall("read_register", 262, 1)
      [] op = "solar_voltage" -> ReadCall("read_register", 263, 1)
      [] op = "solar_current" -> ReadCall("read_register", 264, 1)
      [] op = "solar_power" -> ReadCall("read_register", 265, 1)
      [] op = "charging_amp_hours_today" -> ReadCall("read_register", 273, 1)
      [] op = "discharging_amp_hours_today" -> ReadCall("read_register", 274, 1)
      [] op = "power_generation_today" -> ReadCall("read_register", 275, 1)
      [] op = "charging_status" -> ReadCall("read_register", 288, 1)
      [] op = "charging_status_label" -> ReadCall("read_register", 288, 1)
      [] op = "battery_capacity" -> ReadCall("read_register", 57346, 1)
      [] op = "voltage_setting" -> ReadCall("read_register", 57347, 1)
      [] op = "battery_type" -> ReadCall("read_register", 57348, 1)
      [] op = "load_mode" -> ReadCall("read_register", 57373, 1)
      [] op = "set_load_mode" -> WriteCall(57373, LoadMode[arg.name])
      [] op = "set_load_on" -> WriteCall(266, 1)
      [] op = "set_load_off" -> WriteCall(266, 0)

\* C6: every invocation (set_load_mode with a LoadMode member) has made
\* exactly one transport call, the one the register map fixes for it: a read
\* of that span for an accessor, a write and no read for a mutator.
C6_OneCallPerOperation ==
    (Invoked /\ (last.op = "set_load_mode" => last.arg.type = "LoadMode")) =>
        last.calls = <<ExpectedCall(last.op, last.arg)>>

\* controller_temperature has read register 259 once, and set_load_mode has
\* written ALWAYS_ON once
C6_Witness ==
    /\ Invoked
    /\ last.op = "controller_temperature"
    /\ last.calls = <<ReadCall("read_register", 259, 1)>>
    /\ last.transport = "ok"

C6_WitnessMutator ==
    /\ Invoked
    /\ last.op = "set_load_mode"
    /\ last.arg = PyEnum("ALWAYS_ON")
    /\ last.calls = <<WriteCall(57373, 17)>>

\* C7: when the transport call of an operation fails, the operation raises
\* that error, returns nothing, and has made exactly one transport call.
C7_FailureSurfaced ==
    (Invoked /\ last.transport = "failed") =>
        /\ last.out = PyRaise("CommunicationError")
        /\ Len(last.calls) = 1

\* version and charging_status_label have each failed in the transport
C7_Witness == Invoked /\ last.op = "version" /\ last.transport = "failed"

C7_WitnessLabel ==
    Invoked /\ last.op = "charging_status_label" /\ last.transport = "failed"

\* the writes the claim allows
AllowedWrites ==
    {WriteCall(266, 1), WriteCall(266, 0)} \cup {WriteCall(57373, v) : v \in 0 .. 17}

\* C8: every write the transport has received is (0x010A, 1) from
\* set_load_on, (0x010A, 0) from set_load_off, or (0xE01D, v) with v in
\* 0x00..0x11 from set_load_mode; a read accessor issues no write.
C8_OnlyAllowedWrites ==
    Invoked =>
        \A i \in 1 .. Len(last.calls) :
            last.calls[i].fn = "write_register" =>
                /\ last.calls[i] \in AllowedWrites
                /\ \/ last.op = "set_load_on" /\ last.calls[i] = WriteCall(266, 1)
                   \/ last.op = "set_load_off" /\ last.calls[i] = WriteCall(266, 0)
                   \/ /\ last.op = "set_load_mode"
                      /\ last.arg.type = "LoadMode"
                      /\ last.calls[i] = WriteCall(57373, LoadMode[last.arg.name])

-----------------------------------------------------------------------------
(* SpecConcurrent: threads sharing one RenogyRover instance *)

Threads == 1 .. (1 + ExtraThreads)

Operations ==
    {"model", "system_voltage_current", "version", "serial_number",
     "battery_percentage", "battery_voltage", "battery_temperature",
     "controller_temperature", "load_voltage", "load_current", "load_power",
     "solar_voltage", "solar_current", "solar_power", "charging_amp_hours_today",
     "discharging_amp_hours_today", "power_generation_today", "charging_status",
     "charging_status_label", "battery_capacity", "voltage_setting",
     "battery_type", "load_mode", "set_load_mode", "set_load_on", "set_load_off"}

Idle == [at |-> "idle"]

InitConcurrent ==
    /\ raw = <<>>
    /\ decoded = NoDecode
    /\ FacadeIdle
    /\ pc = [t \in Threads |-> Idle]
    /\ bus = <<>>

\* thread t calls an operation: the method goes straight to the inherited
\* transport call, which puts the request frame on the serial line; the
\* class takes no lock before it
Request(t) ==
    /\ pc[t] = Idle
    /\ Len(bus) < MaxFrames
    /\ \E op \in Operations : pc' = [pc EXCEPT ![t] = [at |-> "awaiting", op |-> op]]
    /\ bus' = Append(bus, [thread |-> t, frame |-> "request"])
    /\ UNCHANGED <<raw, decoded, loadModeReg, relayReg, last>>

\* the transport call of thread t reads its response frame and returns
Response(t) ==
    /\ pc[t].at = "awaiting"
    /\ pc' = [pc EXCEPT ![t] = Idle]
    /\ bus' = Append(bus, [thread |-> t, frame |-> "response"])
    /\ UNCHANGED <<raw, decoded, loadModeReg, relayReg, last>>

NextConcurrent == \E t \in Threads : Request(t) \/ Response(t)

SpecConcurrent == InitConcurrent /\ [][NextConcurrent]_vars

InFlight == {t \in Threads : pc[t].at = "awaiting"}

\* C5: the transport never has two requests in flight, and the frames on the
\* line are fully ordered: each request is followed by its own response
\* before any other request.
C5_OneInFlight ==
    /\ Cardinality(InFlight) <= 1
    /\ \A i \in 1 .. Len(bus) - 1 :
          bus[i].frame = "request" =>
              bus[i + 1] = [thread |-> bus[i].thread, frame |-> "response"]

====
